---- MODULE Spec2Model ----
(***************************************************************************)
(* A model of health_news_scraper.py: the startup probe of the output     *)
(* directory, the text normalizer, the link classifier, the article       *)
(* extractor, the article writer and the run orchestrator.                *)
(*                                                                         *)
(* Text is modelled as a sequence of characters, each character a string  *)
(* (a character outside ASCII is named by a token such as "e_acute").     *)
(* A parsed page is a flat list of leaf elements in document order, each  *)
(* with its tag, its text and the container it sits in.                   *)
(***************************************************************************)
EXTENDS Integers, Sequences, FiniteSets, TLC

VARIABLES
  pc,                       \* position of the process
  probe,                    \* outcome of the startup probe of DESKTOP_PATH
  exit_code,                \* exit status of the process, None while it runs
  max_articles_per_source,  \* value of --max-articles
  src,                      \* index in SOURCES of the source being processed
  listing,                  \* hrefs of the <a href> tags of the listing page
  classified,               \* article_links before deduplication (line 179-216)
  article_links,            \* article_links after line 218
  link,                     \* index in article_links of the link being processed
  response,                 \* the article page last fetched
  title,                    \* title returned by the last scrape_article
  elements,                 \* elements returned by the last scrape_article
  all_articles,             \* the aggregate list of fetch_health_news
  timestamp,                \* timestamp of the run (line 166)
  idx,                      \* file-naming index (line 167)
  files,                    \* output files written, name -> content
  save_calls,               \* arguments and outcome of every save_article call
  slept,                    \* TRUE when a sleep was taken since the last GET
  listing_gets,             \* per source, number of listing GETs
  source_gets               \* GETs issued since the current source began

vars == << pc, probe, exit_code, max_articles_per_source, src, listing,
           classified, article_links, link, response, title, elements,
           all_articles, timestamp, idx, files, save_calls, slept,
           listing_gets, source_gets >>

----------------------------------------------------------------------------
(* Bounds of the model. *)

\* most leaf elements on a modelled article page
MaxNodes == 3
\* most <a href> tags on a modelled listing page
MaxHrefs == 3
\* largest value given to --max-articles
MaxArg == 2
\* most article pages that pass both gates in one run
MaxGoodPages == 2
\* number of configured sources a modelled run goes through
NumSources == 3

----------------------------------------------------------------------------
(* Strings as character sequences. *)

Rep(c, n) == [i \in 1..n |-> c]

Min(S) == CHOOSE x \in S : \A y \in S : x <= y

Max(S) == CHOOSE x \in S : \A y \in S : x >= y

Range(s) == {s[i] : i \in 1..Len(s)}

\* str.startswith
StartsWith(s, p) == Len(p) <= Len(s) /\ SubSeq(s, 1, Len(p)) = p

\* the Python operator `sub in s` on strings
Contains(s, sub) ==
  \E i \in 0..(Len(s) - Len(sub)) : \A k \in 1..Len(sub) : s[i + k] = sub[k]

\* first index of sub in s, 0 when absent
IndexOf(s, sub) ==
  LET I == {i \in 1..(Len(s) - Len(sub) + 1) :
              \A k \in 1..Len(sub) : s[i + k - 1] = sub[k]}
  IN  IF I = {} THEN 0 ELSE Min(I)

\* str.count of a single character
Count(s, c) == Cardinality({i \in 1..Len(s) : s[i] = c})

UpperCase ==
  <<"A","B","C","D","E","F","G","H","I","J","K","L","M",
    "N","O","P","Q","R","S","T","U","V","W","X","Y","Z">>

LowerCase ==
  <<"a","b","c","d","e","f","g","h","i","j","k","l","m",
    "n","o","p","q","r","s","t","u","v","w","x","y","z">>

Digits == {"0","1","2","3","4","5","6","7","8","9"}

LowerChar(c) ==
  IF c \in Range(UpperCase)
    THEN LowerCase[CHOOSE i \in 1..Len(UpperCase) : UpperCase[i] = c]
    ELSE c

\* str.lower
Lower(s) == [i \in 1..Len(s) |-> LowerChar(s[i])]

\* str.rstrip(chars)
RStrip(s, chars) ==
  LET I == {i \in 1..Len(s) : s[i] \notin chars}
  IN  IF I = {} THEN <<>> ELSE SubSeq(s, 1, Max(I))

\* the regular-expression classes \w and \s over ASCII
WordChars == Range(UpperCase) \cup Range(LowerCase) \cup Digits \cup {"_"}

SpaceChars == {" ", "\t", "\n"}

\* str.strip
Strip(s) ==
  LET I == {i \in 1..Len(s) : s[i] \notin SpaceChars}
  IN  IF I = {} THEN <<>> ELSE SubSeq(s, Min(I), Max(I))

\* re.sub(r'\s+', rep, s)
SubSpaces(s, rep) ==
  LET marks == [i \in 1..Len(s) |->
                  IF s[i] \in SpaceChars
                    THEN IF i > 1 /\ s[i - 1] \in SpaceChars THEN "" ELSE rep
                    ELSE s[i]]
  IN  SelectSeq(marks, LAMBDA c : c # "")

\* unicodedata.normalize('NFKD', c).encode('ascii', 'ignore') of one character
AsciiOf(c) ==
  CASE c = "e_acute" -> <<"e">>
    [] c = "nbsp"    -> <<" ">>
    [] c = "fi_lig"  -> <<"f", "i">>
    [] c = "euro"    -> <<>>
    [] c = "rsquo"   -> <<>>
    [] OTHER         -> <<c>>

RECURSIVE AsciiFold(_)
AsciiFold(s) ==
  IF s = <<>> THEN <<>> ELSE AsciiOf(Head(s)) \o AsciiFold(Tail(s))

----------------------------------------------------------------------------
(* Text Normalizer. *)

FilenameLimit == 50

\* clean_filename
clean_filename(text) ==
  LET ascii  == AsciiFold(text)
      kept   == Strip(SelectSeq(ascii,
                  LAMBDA c : c \in WordChars \cup SpaceChars \cup {"-"}))
      joined == SubSpaces(kept, "_")
  IN  SubSeq(joined, 1, IF Len(joined) < FilenameLimit THEN Len(joined)
                                                       ELSE FilenameLimit)

BodyPunctuation == {".", ",", "!", "?", "'", "\"", "-"}

\* clean_text; both values of for_body strip the ends (line 73, line 74)
clean_text(text, for_body) ==
  IF text = <<>>
    THEN <<>>
    ELSE LET ascii == AsciiFold(text)
             kept  == SelectSeq(ascii,
                        LAMBDA c : c \in WordChars \cup SpaceChars
                                          \cup BodyPunctuation)
             one   == Strip(SubSpaces(kept, " "))
         IN  IF for_body THEN one ELSE Strip(one)

----------------------------------------------------------------------------
(* Article Extractor. *)

\* an optional value: <<>> is None, <<x>> is x
None == <<>>

NoTitle == <<"N","o"," ","T","i","t","l","e">>

ContentClassKeys ==
  << <<"a","r","t","i","c","l","e">>,
     <<"c","o","n","t","e","n","t">>,
     <<"n","e","w","s">>,
     <<"b","o","d","y">> >>

HeadingMinLen == 10

BodyMinLen == 20

MinElements == 2

\* soup.find(tag): the first element with that tag, or None
Find(nodes, tag) ==
  LET I == {i \in 1..Len(nodes) : nodes[i].tag = tag}
  IN  IF I = {} THEN None ELSE <<nodes[Min(I)]>>

\* a or b, for values that are None or a Tag (a Tag is always true)
PyOr(a, b) == IF a # None THEN a ELSE b

\* line 94-95
ExtractTitle(nodes) ==
  LET title_elem == PyOr(Find(nodes, "h1"),
                         PyOr(Find(nodes, "title"), Find(nodes, "h2")))
  IN  IF title_elem # None THEN clean_text(title_elem[1].text, FALSE)
                           ELSE NoTitle

\* the class_ predicate of line 99
ClassMatches(x) ==
  /\ x # None
  /\ x[1] # <<>>
  /\ \E k \in Range(ContentClassKeys) : Contains(Lower(x[1]), k)

\* line 98-102: the container the content is read from
ContentRoot(page) ==
  IF \E i \in 1..Len(page.nodes) : page.nodes[i].box = "article"
    THEN "article"
  ELSE IF /\ \E i \in 1..Len(page.nodes) : page.nodes[i].box = "div"
          /\ ClassMatches(page.divClass)
    THEN "div"
  ELSE IF \E i \in 1..Len(page.nodes) : page.nodes[i].box = "main"
    THEN "main"
  ELSE "soup"

\* content.find_all(["h2", "h3", "p", "blockquote"]), in document order
ContentNodes(page) ==
  LET root == ContentRoot(page)
  IN  SelectSeq(page.nodes,
        LAMBDA n : /\ root = "soup" \/ n.box = root
                   /\ n.tag \in {"h2", "h3", "p", "blockquote"})

\* line 106-117: the element one node contributes, or None
ElementOf(n) ==
  IF n.tag \in {"h2", "h3"}
    THEN LET text == clean_text(n.text, FALSE)
         IN  IF text # <<>> /\ Len(text) > HeadingMinLen
               THEN <<[type |-> "heading", level |-> n.tag, text |-> text]>>
               ELSE None
  ELSE IF n.tag = "p"
    THEN LET text == clean_text(n.text, TRUE)
         IN  IF text # <<>> /\ Len(text) > BodyMinLen
               THEN <<[type |-> "paragraph", level |-> "", text |-> text]>>
               ELSE None
  ELSE IF n.tag = "blockquote"
    THEN LET text == clean_text(n.text, TRUE)
         IN  IF text # <<>> /\ Len(text) > BodyMinLen
               THEN <<[type |-> "quote", level |-> "", text |-> text]>>
               ELSE None
  ELSE None

RECURSIVE ExtractElements(_)
\* line 104-117
ExtractElements(nodes) ==
  IF nodes = <<>> THEN <<>>
  ELSE ElementOf(Head(nodes)) \o ExtractElements(Tail(nodes))

\* line 88: the language gate
LangRejected(lang) == lang # <<>> /\ ~StartsWith(lang, <<"e","n">>)

\* the richness gate letting one element through
Insufficient_One(elems) == elems = <<>>

\* line 119: the richness gate
Insufficient(elems) == elems = <<>> \/ Len(elems) < MinElements

\* scrape_article, applied to what requests.get answered for the URL.
\* An error status raises in line 82-83; a tree with no <html> element
\* makes soup.find('html') None, and line 87 raises AttributeError; both
\* end in the handler of line 127-130.
scrape_article(resp) ==
  IF resp.status # "ok" \/ ~resp.html
    THEN [title |-> NoTitle, elements |-> <<>>]
    ELSE LET lang == Lower(IF resp.lang = None THEN <<>> ELSE resp.lang[1])
         IN  IF LangRejected(lang)
               THEN [title |-> NoTitle, elements |-> <<>>]
               ELSE LET t     == ExtractTitle(resp.nodes)
                        elems == ExtractElements(ContentNodes(resp))
                    IN  IF Insufficient(elems)
                          THEN [title |-> t, elements |-> <<>>]
                          ELSE [title |-> t, elements |-> elems]

----------------------------------------------------------------------------
(* Sample article pages. *)

Node(tag, text, box) == [tag |-> tag, text |-> text, box |-> box]

\* <h1>Test, Article!!</h1>
H1Good ==
  Node("h1", <<"T","e","s","t",","," ","A","r","t","i","c","l","e","!","!">>,
       "none")

\* an <h1> whose text is only characters that clean_text strips
H1Blank == Node("h1", <<" ", "*", "euro", " ">>, "none")

TitleTag == Node("title", <<"H","e","a","l","t","h"," ","n","e","w","s">>, "none")

\* headings of 11 and of 10 characters
H2Long == Node("h2", Rep("h", HeadingMinLen + 1), "article")

H3Short == Node("h3", Rep("h", HeadingMinLen), "article")

\* paragraphs of 21 and of 20 characters
ParaLong == Node("p", Rep("p", BodyMinLen + 1), "article")

ParaShort == Node("p", Rep("p", BodyMinLen), "article")

\* a quote of 21 characters once cleaned, inside <div class="Main-Content">
QuoteDiv ==
  Node("blockquote",
       <<" ", "nbsp">> \o Rep("q", 10) \o <<"\n", " ", "rsquo">>
         \o Rep("q", 9) \o <<"e_acute", "\t">>,
       "div")

ParaMain == Node("p", Rep("m", BodyMinLen + 2), "main")

ParaLoose == Node("p", Rep("x", BodyMinLen + 3), "none")

NodeKinds ==
  {H1Good, H1Blank, TitleTag, H2Long, H3Short, ParaLong, ParaShort,
   QuoteDiv, ParaMain, ParaLoose}

\* the lists of at most n leaf elements
NodeSeqs(n) == UNION {[1..k -> NodeKinds] : k \in 0..n}

\* the lang attribute of <html>: absent, empty, or a value
LangAttrs ==
  {None, <<<<>>>>, <<<<"e","n">>>>, <<<<"E","N","-","u","s">>>>,
   <<<<"f","r">>>>}

DivClasses ==
  {<<<<"M","a","i","n","-","C","o","n","t","e","n","t">>>>,
   <<<<"s","i","d","e","b","a","r">>>>}

Page(status, html, lang, divClass, nodes) ==
  [status |-> status, html |-> html, lang |-> lang, divClass |-> divClass,
   nodes |-> nodes]

\* requests.get raised (timeout, connection) or raise_for_status raised
ErrorPages ==
  {Page(s, FALSE, None, None, <<>>) : s \in {"timeout", "http_error"}}

\* the answers to an article GET with at most n leaf elements on the page
Pages(n) ==
  ErrorPages
  \cup {Page("ok", TRUE, l, c, ns) : l \in LangAttrs, c \in DivClasses, ns \in NodeSeqs(n)}
  \cup {Page("ok", FALSE, None, c, ns) : c \in DivClasses, ns \in NodeSeqs(n)}

----------------------------------------------------------------------------
(* Configuration and Link Classifier. *)

SOURCES ==
  << [name |-> "Healthline",
      url |-> <<"h","t","t","p","s",":","/","/","w","w","w",".","h","e","a","l","t","h","l","i","n","e",".","c","o","m","/","h","e","a","l","t","h","-","n","e","w","s">>],
     [name |-> "WebMD",
      url |-> <<"h","t","t","p","s",":","/","/","w","w","w",".","w","e","b","m","d",".","c","o","m","/","n","e","w","s">>],
     [name |-> "BBC Health",
      url |-> <<"h","t","t","p","s",":","/","/","w","w","w",".","b","b","c",".","c","o","m","/","n","e","w","s","/","h","e","a","l","t","h">>],
     [name |-> "The Guardian Health",
      url |-> <<"h","t","t","p","s",":","/","/","w","w","w",".","t","h","e","g","u","a","r","d","i","a","n",".","c","o","m","/","s","o","c","i","e","t","y","/","h","e","a","l","t","h">>],
     [name |-> "Irish Times Health",
      url |-> <<"h","t","t","p","s",":","/","/","w","w","w",".","i","r","i","s","h","t","i","m","e","s",".","c","o","m","/","h","e","a","l","t","h","/">>],
     [name |-> "Sky News Health",
      url |-> <<"h","t","t","p","s",":","/","/","n","e","w","s",".","s","k","y",".","c","o","m","/","t","o","p","i","c","/","h","e","a","l","t","h","-","1","0","0","4","1">>],
     [name |-> "The Local Sweden Health",
      url |-> <<"h","t","t","p","s",":","/","/","w","w","w",".","t","h","e","l","o","c","a","l",".","s","e","/","t","a","g","/","h","e","a","l","t","h">>],
     [name |-> "ANSA English Health",
      url |-> <<"h","t","t","p","s",":","/","/","w","w","w",".","a","n","s","a",".","i","t","/","e","n","g","l","i","s","h","/","n","e","w","s","/","s","c","i","e","n","c","e","_","a","n","d","_","h","e","a","l","t","h","/">>],
     [name |-> "Medical News Today",
      url |-> <<"h","t","t","p","s",":","/","/","w","w","w",".","m","e","d","i","c","a","l","n","e","w","s","t","o","d","a","y",".","c","o","m","/","n","e","w","s">>],
     [name |-> "Mayo Clinic News",
      url |-> <<"h","t","t","p","s",":","/","/","n","e","w","s","n","e","t","w","o","r","k",".","m","a","y","o","c","l","i","n","i","c",".","o","r","g","/","d","i","s","c","u","s","s","i","o","n","/">>] >>

Blocklist ==
  << <<"l","o","g","i","n">>,
     <<"s","i","g","n","u","p">>,
     <<"a","d","v","e","r","t">>,
     <<"p","r","i","v","a","c","y">>,
     <<"a","r","c","h","i","v","e">>,
     <<"c","a","t","e","g","o","r","y">>,
     <<"t","a","g">>,
     <<"a","c","c","o","u","n","t">>,
     <<"s","e","t","t","i","n","g","s">>,
     <<"s","u","b","s","c","r","i","b","e">>,
     <<"n","e","w","s","l","e","t","t","e","r">>,
     <<"v","i","s","a">>,
     <<"i","n","s","u","r","a","n","c","e">>,
     <<"p","o","d","c","a","s","t">>,
     <<"p","a","r","s","i">>,
     <<"v","i","d","e","o">>,
     <<"g","a","l","l","e","r","y">>,
     <<"c","o","m","m","e","n","t">>,
     <<"d","e","f","a","u","l","t",".","h","t","m">>,
     <<"p","a","g","e","=">>,
     <<"i","n","d","e","x">> >>

DefaultIndicators ==
  << <<"a","r","t","i","c","l","e">>,
     <<"n","e","w","s","/">>,
     <<"s","t","o","r","y">>,
     <<"2","0","2">> >>

Http == <<"h","t","t","p">>

\* the text of s after the first occurrence of sep, up to the next one:
\* s.split(sep)[1]
SplitSecond(s, sep) ==
  LET i    == IndexOf(s, sep)
      rest == SubSeq(s, i + Len(sep), Len(s))
      j    == IndexOf(rest, sep)
  IN  IF j = 0 THEN rest ELSE SubSeq(rest, 1, j - 1)

\* s.split(sep)[0]
SplitFirst(s, sep) ==
  LET i == IndexOf(s, sep)
  IN  IF i = 0 THEN s ELSE SubSeq(s, 1, i - 1)

\* line 187: source['url'].rstrip("/").split("//")[1].split("/")[0]
SiteOf(url) ==
  SplitFirst(SplitSecond(RStrip(url, {"/"}), <<"/","/">>), <<"/">>)

\* whether a reference carries its own scheme (http:, mailto:, ...)
HasScheme(href) ==
  LET i == IndexOf(href, <<":">>)
  IN  /\ i > 1
      /\ \A k \in 1..(i - 1) : href[k] \in WordChars \ {"_"}

\* urllib.parse.urljoin(base, href) for an absolute base and a reference
\* without dot segments
urljoin(base, href) ==
  LET scheme == SplitFirst(base, <<":">>)
      site   == SiteOf(base)
      root   == scheme \o <<":","/","/">> \o site
      path   == SubSeq(base, Len(root) + 1, Len(base))
      slashes == {i \in 1..Len(path) : path[i] = "/"}
      dir    == IF slashes = {} THEN <<"/">> ELSE SubSeq(path, 1, Max(slashes))
  IN  IF href = <<>> THEN base
      ELSE IF HasScheme(href) THEN href
      ELSE IF StartsWith(href, <<"/","/">>) THEN scheme \o <<":">> \o href
      ELSE IF Head(href) = "/" THEN root \o href
      ELSE IF Head(href) \in {"#", "?"} THEN base \o href
      ELSE root \o dir \o href

\* line 186-193: absolute, same site, not blocklisted
PassesCommonFilter(source, href) ==
  LET lowered == Lower(href)
  IN  /\ StartsWith(href, Http)
      /\ Contains(href, SiteOf(source.url))
      /\ ~\E exclude \in Range(Blocklist) : Contains(lowered, exclude)

\* line 195-216: the allow rule of the source
PassesSourceRule(source, href) ==
  LET lowered == Lower(href)
  IN  IF source.name = "BBC Health"
        THEN Contains(lowered, <<"h","e","a","l","t","h","-">>)
             /\ Count(href, "/") >= 4
      ELSE IF source.name = "WebMD"
        THEN Contains(lowered, <<"/","n","e","w","s","/">>)
             /\ Count(href, "/") >= 5
      ELSE IF source.name = "The Guardian Health"
        THEN \/ Contains(lowered, <<"/","a","r","t","i","c","l","e","/">>)
             \/ Contains(lowered, <<"/","2","0","2">>)
      ELSE \E indicator \in Range(DefaultIndicators) :
             Contains(lowered, indicator)

\* line 181-216: article_links before deduplication, in document order
ClassifyLinks(source, hrefs) ==
  SelectSeq([i \in 1..Len(hrefs) |-> urljoin(source.url, hrefs[i])],
            LAMBDA h : PassesCommonFilter(source, h) /\ PassesSourceRule(source, h))

\* s[:n]
SliceTo(s, n) ==
  IF n >= 0 THEN SubSeq(s, 1, IF n < Len(s) THEN n ELSE Len(s))
            ELSE SubSeq(s, 1, IF Len(s) + n > 0 THEN Len(s) + n ELSE 0)

\* the lists list(S) can be: a set of strings iterates in an order that
\* varies from one process to the next
ListsOf(S) ==
  {f \in [1..Cardinality(S) -> S] : \A i, j \in 1..Cardinality(S) : f[i] = f[j] => i = j}

\* line 218: the values list(set(article_links))[:max_articles_per_source] can take
CapLinks(links, n) == {SliceTo(order, n) : order \in ListsOf(Range(links))}

----------------------------------------------------------------------------
(* Sample listing pages. *)

\* a link from the site root, to an article: /news/health-2024/flu
HrefNews == <<"/","n","e","w","s","/","h","e","a","l","t","h","-","2","0","2","4","/","f","l","u">>

\* another one: /article/2023/x
HrefArticle == <<"/","a","r","t","i","c","l","e","/","2","0","2","3","/","x">>

\* a link relative to the listing's directory: Story-7
HrefStory == <<"S","t","o","r","y","-","7">>

\* a blocklisted link: /login?next=/article/1
HrefLogin == <<"/","l","o","g","i","n","?","n","e","x","t","=","/","a","r","t","i","c","l","e","/","1">>

\* not an http link: mailto:news/desk@example.org
HrefMail == <<"m","a","i","l","t","o",":","n","e","w","s","/","d","e","s","k","@","e","x","a","m","p","l","e",".","o","r","g">>

\* a protocol-relative link to another host: //cdn.example/news/a.js
HrefCdn == <<"/","/","c","d","n",".","e","x","a","m","p","l","e","/","n","e","w","s","/","a",".","j","s">>

\* an absolute link to Healthline: https://www.healthline.com/health-news/article-1
HrefOnSite == <<"h","t","t","p","s",":","/","/","w","w","w",".","h","e","a","l","t","h","l","i","n","e",".","c","o","m","/","h","e","a","l","t","h","-","n","e","w","s","/","a","r","t","i","c","l","e","-","1">>

\* another host, naming Healthline's host in its query string: https://evil.example/article?u=www.healthline.com
HrefOffSite == <<"h","t","t","p","s",":","/","/","e","v","i","l",".","e","x","a","m","p","l","e","/","a","r","t","i","c","l","e","?","u","=","w","w","w",".","h","e","a","l","t","h","l","i","n","e",".","c","o","m">>

\* another host, naming the BBC's host in its query string: https://evil.example/health-x/?u=www.bbc.com
HrefOffSiteBbc == <<"h","t","t","p","s",":","/","/","e","v","i","l",".","e","x","a","m","p","l","e","/","h","e","a","l","t","h","-","x","/","?","u","=","w","w","w",".","b","b","c",".","c","o","m">>

\* a page no allow rule accepts: /about
HrefAbout == <<"/","a","b","o","u","t">>

HrefKinds ==
  {HrefNews, HrefArticle, HrefStory, HrefLogin, HrefMail,
   HrefCdn, HrefOnSite, HrefOffSite, HrefOffSiteBbc, HrefAbout}

\* the listing pages with at most n <a href> tags
Listings(n) == UNION {[1..k -> HrefKinds] : k \in 0..n}

----------------------------------------------------------------------------
(* Article Writer. *)

\* line 136: the pieces of "{source}_{clean_title}_{timestamp}_{idx}.txt";
\* two names with different idx differ in the text after the last "_"
FileNameOf(t, source, ts, i) ==
  [source |-> source, title |-> clean_filename(t), timestamp |-> ts, idx |-> i]

\* line 145-151
RenderElement(elem) ==
  IF elem.type = "heading"
    THEN (IF elem.level = "h2" THEN <<"#">> ELSE <<"#","#">>) \o <<" ">> \o elem.text
  ELSE IF elem.type = "paragraph" THEN elem.text
  ELSE IF elem.type = "quote" THEN <<">"," ">> \o elem.text
  ELSE <<>>

\* line 140-151: the text written, without its Date: line
RenderArticle(t, elems, source, url) ==
  [Source |-> source, URL |-> url, Title |-> t,
   body |-> [i \in 1..Len(elems) |-> RenderElement(elems[i])]]

\* save_article: the output directory after the call; a failed write
\* (line 154-155 raising) is caught in line 159 and leaves it as it was
save_article(dir, t, elems, source, url, ts, i, write_ok) ==
  IF write_ok
    THEN {f \in dir : f.name # FileNameOf(t, source, ts, i)}
         \cup {[name |-> FileNameOf(t, source, ts, i),
                content |-> RenderArticle(t, elems, source, url)]}
    ELSE dir

----------------------------------------------------------------------------
(* Inputs of a run. *)

ProbeOutcomes == {"ok", "makedirs_failed", "write_failed", "remove_failed"}

\* values of --max-articles: argparse type=int takes any integer
Args == (0 - 1)..MaxArg

\* values datetime.now().strftime("%Y%m%d_%H%M%S") may give in line 166
Timestamps == {"20261103_203000", "20261103_203001"}

PageTimeout == Page("timeout", FALSE, None, None, <<>>)

\* two long paragraphs and no <html> element
PageNoHtml ==
  Page("ok", FALSE, None, <<<<"s","i","d","e","b","a","r">>>>,
       <<ParaLoose, ParaLoose>>)

PageFrench ==
  Page("ok", TRUE, <<<<"f","r">>>>, <<<<"s","i","d","e","b","a","r">>>>,
       <<H1Good, ParaLong, ParaLong>>)

\* one qualifying element only
PageThin ==
  Page("ok", TRUE, <<<<"e","n">>>>, <<<<"s","i","d","e","b","a","r">>>>,
       <<H1Good, ParaLong, ParaShort>>)

PageGood ==
  Page("ok", TRUE, <<<<"E","N","-","u","s">>>>, <<<<"s","i","d","e","b","a","r">>>>,
       <<H1Good, H2Long, ParaLong>>)

\* no lang attribute, a blank <h1>, two paragraphs
PageUntitled ==
  Page("ok", TRUE, None, <<<<"s","i","d","e","b","a","r">>>>,
       <<H1Blank, ParaLong, ParaLong>>)

RunPages ==
  {PageTimeout, PageNoHtml, PageFrench, PageThin, PageGood, PageUntitled}

\* scrape_article on the pages of a run, computed once
ScrapedTable == {[page |-> p, result |-> scrape_article(p)] : p \in RunPages}

Scraped(p) == (CHOOSE row \in ScrapedTable : row.page = p).result

RunHrefs == {HrefNews, HrefArticle}

RunListings == UNION {[1..n -> RunHrefs] : n \in 0..MaxHrefs}

\* the sources a modelled run goes through, in configuration order
Sources == SubSeq(SOURCES, 1, NumSources)

\* the listings a source may answer with in a run, each with what the
\* classifier makes of it, computed once
ListingAnswers ==
  {[src |-> s, hrefs |-> h, links |-> ClassifyLinks(Sources[s], h)] :
     s \in 1..Len(Sources), h \in RunListings}


----------------------------------------------------------------------------
(* The process. *)

NoListingGets == [s \in 1..Len(Sources) |-> 0]

Idle(p) ==
  /\ pc = p
  /\ probe = "pending"
  /\ exit_code = None
  /\ max_articles_per_source = 1
  /\ src = 0
  /\ listing = <<>>
  /\ classified = <<>>
  /\ article_links = <<>>
  /\ link = 0
  /\ response = PageTimeout
  /\ title = <<>>
  /\ elements = <<>>
  /\ all_articles = <<>>
  /\ timestamp = ""
  /\ idx = 0
  /\ files = {}
  /\ save_calls = <<>>
  /\ slept = FALSE
  /\ listing_gets = NoListingGets
  /\ source_gets = <<>>

Init == Idle("startup")

\* the probe's failure ignored
AfterProbe_Continue(outcome) == "main"

\* line 24-36: where the process goes after the probe
AfterProbe(outcome) == IF outcome = "ok" THEN "main" ELSE "exited"

\* line 22-36: the probe of the output directory
Probe(outcome) ==
  /\ pc = "startup"
  /\ probe' = outcome
  /\ pc' = AfterProbe(outcome)
  /\ exit_code' = IF pc' = "exited" THEN <<1>> ELSE None
  /\ UNCHANGED << max_articles_per_source, src, listing, classified,
                  article_links, link, response, title, elements,
                  all_articles, timestamp, idx, files, save_calls, slept,
                  listing_gets, source_gets >>

\* line 250-258 and 163-167: main parses the flag and fetch_health_news begins
Main(n, now) ==
  /\ pc = "main"
  /\ max_articles_per_source' = n
  /\ all_articles' = <<>>
  /\ timestamp' = now
  /\ idx' = 0
  /\ src' = 1
  /\ pc' = "source"
  /\ UNCHANGED << probe, exit_code, listing, classified, article_links, link,
                  response, title, elements, files, save_calls, slept,
                  listing_gets, source_gets >>

\* line 252-254: parse_args rejects the command line and exits with status 2
BadArgs ==
  /\ pc = "main"
  /\ pc' = "exited"
  /\ exit_code' = <<2>>
  /\ UNCHANGED << probe, max_articles_per_source, src, listing, classified,
                  article_links, link, response, title, elements,
                  all_articles, timestamp, idx, files, save_calls, slept,
                  listing_gets, source_gets >>

\* a failed source ending the loop
AfterSourceFailure_Abort(s) == Len(Sources) + 1

\* line 243-246: the source the loop turns to after a failed source
AfterSourceFailure(s) == s + 1

\* line 174-176 raising: the listing fetch fails; line 243-246
FetchListingFailed ==
  /\ pc = "source"
  /\ src <= Len(Sources)
  /\ listing_gets' = [listing_gets EXCEPT ![src] = @ + 1]
  /\ source_gets' = <<[url |-> Sources[src].url, ok |-> FALSE]>>
  /\ slept' = FALSE
  /\ src' = AfterSourceFailure(src)
  /\ UNCHANGED << pc, probe, exit_code, max_articles_per_source, listing,
                  classified, article_links, link, response, title, elements,
                  all_articles, timestamp, idx, files, save_calls >>

\* line 174-222: the listing is fetched and its links classified; with no
\* link left the source is skipped (line 219-222)
FetchListing(answer) ==
  /\ pc = "source"
  /\ src <= Len(Sources)
  /\ answer.src = src
  /\ listing_gets' = [listing_gets EXCEPT ![src] = @ + 1]
  /\ source_gets' = <<[url |-> Sources[src].url, ok |-> TRUE]>>
  /\ slept' = FALSE
  /\ article_links' \in CapLinks(answer.links,
                                 max_articles_per_source)
  /\ IF article_links' = <<>>
       THEN /\ src' = src + 1
            /\ UNCHANGED << pc, link >>
       ELSE /\ pc' = "link"
            /\ link' = 1
            /\ UNCHANGED src
  /\ UNCHANGED << probe, exit_code, max_articles_per_source, listing,
                  classified, response, title, elements, all_articles,
                  timestamp, idx, files, save_calls >>

\* the index left as it is
NextIdx_Stuck(i) == i

\* line 237
NextIdx(i) == i + 1

\* line 225-242: one link: scrape_article, then for a usable page the
\* append, save_article and the index, then the pacing sleeps
ScrapeLink(page, write_ok) ==
  /\ pc = "link"
  /\ link <= Len(article_links)
  /\ LET url    == article_links[link]
         result == Scraped(page)
     IN  \* the model follows runs with at most MaxGoodPages usable pages
         /\ Len(all_articles) < MaxGoodPages \/ result.elements = <<>>
         \* no file is written for an unusable page
         /\ write_ok \/ result.elements # <<>>
         /\ response' = page
         /\ title' = result.title
         /\ elements' = result.elements
         /\ source_gets' = Append(source_gets,
                                  [url |-> url, ok |-> page.status = "ok"])
         /\ IF result.elements # <<>>
              THEN /\ all_articles' =
                        Append(all_articles,
                               [source |-> Sources[src].name, url |-> url,
                                title |-> result.title,
                                elements |-> result.elements])
                   /\ files' = save_article(files, result.title, result.elements,
                                            Sources[src].name, url, timestamp,
                                            idx, write_ok)
                   /\ save_calls' =
                        Append(save_calls,
                               [name |-> FileNameOf(result.title, Sources[src].name,
                                                    timestamp, idx),
                                before |-> Len(all_articles),
                                ok |-> write_ok])
                   /\ idx' = NextIdx(idx)
              ELSE UNCHANGED << all_articles, files, save_calls, idx >>
  /\ slept' = TRUE
  /\ link' = link + 1
  /\ UNCHANGED << pc, probe, exit_code, max_articles_per_source, src, listing,
                  classified, article_links, timestamp, listing_gets >>

\* line 247: the links of the source are done; sleep, then the next source
EndSource ==
  /\ pc = "link"
  /\ link > Len(article_links)
  /\ slept' = TRUE
  /\ src' = src + 1
  /\ pc' = "source"
  /\ UNCHANGED << probe, exit_code, max_articles_per_source, listing,
                  classified, article_links, link, response, title, elements,
                  all_articles, timestamp, idx, files, save_calls,
                  listing_gets, source_gets >>

\* line 248 and 259-264: fetch_health_news returns and main reports
Finish ==
  /\ pc = "source"
  /\ src > Len(Sources)
  /\ pc' = "done"
  /\ exit_code' = <<0>>
  /\ UNCHANGED << probe, max_articles_per_source, src, listing, classified,
                  article_links, link, response, title, elements,
                  all_articles, timestamp, idx, files, save_calls, slept,
                  listing_gets, source_gets >>

Next ==
  \/ \E outcome \in ProbeOutcomes : Probe(outcome)
  \/ \E n \in Args, now \in Timestamps : Main(n, now)
  \/ BadArgs
  \/ FetchListingFailed
  \/ \E answer \in ListingAnswers : FetchListing(answer)
  \/ \E page \in RunPages, write_ok \in BOOLEAN : ScrapeLink(page, write_ok)
  \/ EndSource
  \/ Finish

Spec == Init /\ [][Next]_vars

----------------------------------------------------------------------------
(* The link classifier on its own: any source, any listing, any cap. *)

InitLinks ==
  /\ \E s \in 1..Len(SOURCES), h \in Listings(MaxHrefs), n \in Args :
       /\ src = s
       /\ listing = h
       /\ max_articles_per_source = n
  /\ pc = "classify"
  /\ probe = "ok"
  /\ exit_code = None
  /\ classified = <<>>
  /\ article_links = <<>>
  /\ link = 0
  /\ response = PageTimeout
  /\ title = <<>>
  /\ elements = <<>>
  /\ all_articles = <<>>
  /\ timestamp = ""
  /\ idx = 0
  /\ files = {}
  /\ save_calls = <<>>
  /\ slept = FALSE
  /\ listing_gets = NoListingGets
  /\ source_gets = <<>>

\* line 179-218 on the listing of the state
Classify ==
  /\ pc = "classify"
  /\ classified' = ClassifyLinks(SOURCES[src], listing)
  /\ article_links' \in CapLinks(classified', max_articles_per_source)
  /\ pc' = "classified"
  /\ UNCHANGED << probe, exit_code, max_articles_per_source, src, listing,
                  link, response, title, elements, all_articles, timestamp,
                  idx, files, save_calls, slept, listing_gets, source_gets >>

NextLinks == Classify

SpecLinks == InitLinks /\ [][NextLinks]_vars

----------------------------------------------------------------------------
(* The article extractor on its own: any answer to the GET. *)

InitScrape ==
  /\ response \in Pages(MaxNodes)
  /\ pc = "scrape"
  /\ probe = "ok"
  /\ exit_code = None
  /\ max_articles_per_source = 1
  /\ src = 0
  /\ listing = <<>>
  /\ classified = <<>>
  /\ article_links = <<>>
  /\ link = 0
  /\ title = <<>>
  /\ elements = <<>>
  /\ all_articles = <<>>
  /\ timestamp = ""
  /\ idx = 0
  /\ files = {}
  /\ save_calls = <<>>
  /\ slept = FALSE
  /\ listing_gets = NoListingGets
  /\ source_gets = <<>>

\* scrape_article on the answer of the state
Scrape ==
  /\ pc = "scrape"
  /\ title' = scrape_article(response).title
  /\ elements' = scrape_article(response).elements
  /\ pc' = "scraped"
  /\ UNCHANGED << probe, exit_code, max_articles_per_source, src, listing,
                  classified, article_links, link, response, all_articles,
                  timestamp, idx, files, save_calls, slept, listing_gets,
                  source_gets >>

NextScrape == Scrape

SpecScrape == InitScrape /\ [][NextScrape]_vars

----------------------------------------------------------------------------
(* Properties. *)

\* some network GET was issued
NetworkUsed ==
  \/ source_gets # <<>>
  \/ \E s \in 1..Len(Sources) : listing_gets[s] > 0

\* the language an answered page declares, lower-cased; empty when the page
\* has no <html> element, no lang attribute or an empty one
DeclaredLang(page) ==
  IF page.html /\ page.lang # None THEN Lower(page.lang[1]) ELSE <<>>

LangAllowed(page) ==
  DeclaredLang(page) = <<>> \/ StartsWith(DeclaredLang(page), <<"e","n">>)

\* the qualifying content elements of a page, in document order
QualifyingElements(page) == ExtractElements(ContentNodes(page))

UsablePage(page) ==
  /\ page.status = "ok"
  /\ LangAllowed(page)
  /\ Len(QualifyingElements(page)) >= 2

NoDuplicates(s) == \A i, j \in 1..Len(s) : s[i] = s[j] => i = j

\* C1: an Article is appended to the aggregate list and handed to
\* save_article only if the page fetched for the link yields at least 2
\* qualifying elements and declares no language, an empty one or one
\* starting with "en"; a page with 0 or 1 element or with lang="fr" is
\* neither appended nor written.
C1_OnlyUsablePagesAppended ==
  [][(all_articles' # all_articles \/ save_calls' # save_calls \/ files' # files)
       => /\ UsablePage(response')
          /\ Len(all_articles') = Len(all_articles) + 1
          /\ all_articles'[Len(all_articles')].elements = QualifyingElements(response')]_vars

\* a French page was fetched after an article had been appended, and the
\* aggregate list still holds that one article
C1_Witness ==
  /\ pc = "link"
  /\ response = PageFrench
  /\ Len(all_articles) = 1
  /\ Len(save_calls) = 1

\* C2: when the startup probe fails the process ends with a non-zero exit
\* status and no network request is ever issued; any network request comes
\* after a probe that succeeded.
C2_ProbeGatesNetwork ==
  /\ probe \notin {"pending", "ok"}
       => /\ pc = "exited"
          /\ exit_code # None
          /\ exit_code[1] # 0
          /\ ~NetworkUsed
  /\ NetworkUsed => probe = "ok"
  /\ pc \notin {"startup", "exited"} => probe = "ok"

\* the test file could not be written and the process has exited
C2_Witness == probe = "write_failed" /\ pc = "exited" /\ exit_code = <<1>>

\* the steps left to a run, from above
Remaining ==
  LET w == MaxHrefs + 2
  IN  CASE pc = "startup" -> (Len(Sources) + 1) * w + 3
        [] pc = "main"    -> (Len(Sources) + 1) * w + 2
        [] pc = "source"  -> (Len(Sources) + 1 - src) * w + 1
        [] pc = "link"    -> (Len(Sources) + 1 - src) * w + 1 - link
        [] OTHER          -> 0

C3_State ==
  /\ pc \in {"source", "link", "done"}
       => \A s \in 1..Len(Sources) :
            listing_gets[s] = IF s < src \/ (s = src /\ pc = "link") THEN 1 ELSE 0
  /\ pc = "link"
       => /\ Len(source_gets) = link
          /\ source_gets[1].url = Sources[src].url
          /\ \A i \in 1..(link - 1) : source_gets[i + 1].url = article_links[i]
  /\ \A i, j \in 1..Len(source_gets) :
       i < j /\ source_gets[i].url = source_gets[j].url => source_gets[i].ok
  /\ pc = "done" => src = Len(Sources) + 1
  /\ pc \in {"done", "exited"} \/ ENABLED Next

\* C3: whatever the outcomes of the listing fetches, article fetches,
\* extractions and file writes, a run fetches the listing of every source
\* exactly once, in configuration order, fetches no URL again after its GET
\* failed, processes every link kept for a source in turn, and ends by
\* returning the aggregate list: every step brings the end nearer and the
\* run stops only when it is done.
C3_EverySourceOnceThenDone ==
  []C3_State /\ [][Remaining' < Remaining]_vars

\* an article GET failed and the next link of the same source was fetched
C3_Witness ==
  /\ pc = "link"
  /\ Len(source_gets) = 3
  /\ ~source_gets[2].ok
  /\ source_gets[3].ok

\* C4: at the end of a run every Article of the returned list has its own
\* output file, written during the run; an article whose write failed is
\* not in the list.
C4_ReturnedArticlesWereWritten ==
  pc = "done"
    => /\ \A i \in 1..Len(all_articles) :
            \E f \in files :
              /\ f.name = FileNameOf(all_articles[i].title,
                                     all_articles[i].source, timestamp, i - 1)
              /\ f.content.URL = all_articles[i].url
       /\ Cardinality(files) = Len(all_articles)

\* C5: for every source and every value N of --max-articles, zero and
\* negative values included, the links kept for the source hold no URL
\* twice and are at most N (none when N is not positive).
C5_AtMostMaxArticlesKept ==
  pc = "classified"
    => /\ NoDuplicates(article_links)
       /\ Len(article_links) <=
            IF max_articles_per_source > 0 THEN max_articles_per_source ELSE 0

\* the host component of an absolute URL: from "//" to the next "/", "?" or "#"
UrlHost(url) ==
  LET i    == IndexOf(url, <<"/","/">>)
      rest == SubSeq(url, i + 2, Len(url))
      ends == {k \in 1..Len(rest) : rest[k] \in {"/", "?", "#"}}
  IN  IF i = 0 THEN <<>>
      ELSE IF ends = {} THEN rest
      ELSE SubSeq(rest, 1, Min(ends) - 1)

\* C6: every link classified for a source has a host component that
\* contains the host of the source's listing URL; a URL on another host
\* that names the source's host in its path or query is not classified.
C6_ClassifiedLinksAreSameSite ==
  pc = "classified"
    => \A i \in 1..Len(classified) :
         Contains(UrlHost(classified[i]), SiteOf(SOURCES[src].url))

\* C7: a page that was fetched and parsed, declares no language (also when
\* it has no <html> element), an empty one or one starting with "en", and
\* yields at least 2 qualifying elements, makes scrape_article return those
\* elements in document order.
C7_UsablePageIsReturned ==
  pc = "scraped" /\ UsablePage(response)
    => elements = QualifyingElements(response)

\* C8: no two network GETs follow one another without a sleep in between.
C8_GetsArePaced ==
  [][source_gets' # source_gets => (slept \/ ~NetworkUsed)]_vars

\* C9: every save_article call of a run gets the run's timestamp and an
\* index that counts up from 0 in steps of 1, equal to the number of
\* articles appended before the current one, also across sources and
\* after a failed write; no two calls get the same file name and no file
\* of the run is overwritten.
C9_IndexCountsSaveCalls ==
  /\ idx = Len(save_calls)
  /\ \A i \in 1..Len(save_calls) :
       /\ save_calls[i].name.timestamp = timestamp
       /\ save_calls[i].name.idx = i - 1
       /\ save_calls[i].before = i - 1
  /\ \A i, j \in 1..Len(save_calls) :
       save_calls[i].name = save_calls[j].name => i = j
  /\ Cardinality(files) = Cardinality({i \in 1..Len(save_calls) : save_calls[i].ok})

\* two save_article calls, for two sources, the first of which failed
C9_Witness ==
  /\ Len(save_calls) = 2
  /\ ~save_calls[1].ok
  /\ save_calls[2].ok
  /\ save_calls[1].name.source # save_calls[2].name.source

\* the title the first of <h1>, <title>, <h2> gives, "No Title" when there
\* is none or its normalized text is empty
ClaimedTitle(nodes) ==
  LET elem == PyOr(Find(nodes, "h1"), PyOr(Find(nodes, "title"), Find(nodes, "h2")))
  IN  IF elem = None \/ clean_text(elem[1].text, FALSE) = <<>>
        THEN NoTitle
        ELSE clean_text(elem[1].text, FALSE)

\* C10: the title scrape_article returns is never empty: it is the
\* normalized text of the first of <h1>, <title>, <h2>, and "No Title" when
\* there is none or when that text is empty.
C10_TitleNeverEmpty ==
  pc = "scraped"
    => /\ title # <<>>
       /\ response.status = "ok" /\ response.html /\ LangAllowed(response)
            => title = ClaimedTitle(response.nodes)

====
